---- MODULE Spec2Model ----
(***************************************************************************)
(* Model of src/plugins/python-plugin/app.py: the in-memory data_store and *)
(* the Flask handlers /health, /actions/product, /actions/order,           *)
(* /actions/analytics and /execute, served by the threaded development     *)
(* server (app.run(threaded=True), one thread per request, no lock).       *)
(* /actions, /ping and /benchmark neither read nor write data_store and    *)
(* are left out, as is main.py, a separate service without a store.        *)
(*                                                                         *)
(* Money is counted in cents (29.99 is 2999).  A handler is split into one *)
(* step per access to data_store: `d[k] += v` is a load followed by a      *)
(* store, and another thread may run between the two (the language makes   *)
(* no statement atomic).  Statements that touch only the handler's locals  *)
(* are joined to the access before them.  Response fields no property      *)
(* reads (timestamp, processing_time_ms, total_requests, plugin_type,      *)
(* message, the random numbers) are left out of the response record.       *)
(***************************************************************************)
EXTENDS Integers, Sequences, FiniteSets, TLC

VARIABLES
  counters,     \* data_store["counters"]
  products,     \* data_store["products"]
  orders,       \* data_store["orders"]
  analytics,    \* data_store["analytics"]
  pc,           \* per thread: position in its handler
  req,          \* per thread: the request being handled
  loc,          \* per thread: the handler's local variables
  lastResp,     \* the response most recently sent
  nStarted,     \* requests accepted so far
  nDone,        \* responses sent so far
  okOrders,     \* history: create_order responses with success:true
  okRevenue,    \* history: sum of the total_price of those responses
  onlyExecute,  \* history: every request so far was create_order or a read-only action
  createdLog    \* history: names of product.created calls, in the order they returned success

vars == <<counters, products, orders, analytics, pc, req, loc, lastResp,
          nStarted, nDone, okOrders, okRevenue, onlyExecute, createdLog>>

store == <<counters, products, orders, analytics>>

----------------------------------------------------------------------------
(* Bounds of the model *)

MaxThreads == 2
MaxRequests == 3
\* requests of the specification with fairness
MaxFairRequests == 2

Threads == 1..MaxThreads

----------------------------------------------------------------------------
(* JSON values *)

\* a JSON value that is not a number (an object), where a number is expected
NonNumeric == 0 - 1
\* a key the request body does not carry
Absent == "<absent>"

IsNumber(v) == v # NonNumeric

\* dict.get(key, default)
Get(v, default) == IF v = Absent THEN default ELSE v

----------------------------------------------------------------------------
(* The store as constructed *)

SeedProducts ==
  << [id |-> 1, name |-> "Python Book", price |-> 2999, category |-> "books", stock |-> 50],
     [id |-> 2, name |-> "Flask Guide", price |-> 3999, category |-> "books", stock |-> 25],
     [id |-> 3, name |-> "Code Editor", price |-> 9999, category |-> "software", stock |-> 100] >>

InitCounters == [requests |-> 0, calculations |-> 0, queries |-> 0]

InitAnalytics == [total_revenue |-> 0, orders_count |-> 0]

----------------------------------------------------------------------------
(* Requests: the inputs the model draws from *)

SupportedActions ==
  {"list_products", "create_order", "get_analytics",
   "calculate_fibonacci", "simulate_delay", "random_data"}

ProductHooks == {"product.created", "product.updated"}
OrderHooks == {"order.created", "order.updated", "order.paid"}
AnalyticsHooks == {"analytics.calculate", "report.generate"}

ActionInputs == SupportedActions \cup {"bogus", Absent}
ProductIdInputs == {1, 4}
QuantityInputs == {2, NonNumeric}
FibInputs == {10, NonNumeric}
DelayInputs == {5000}
NameInputs == {"A", "B"}
PriceInputs == {1500}
TotalInputs == {500, NonNumeric}

\* a request with every field at its neutral value
BlankRequest ==
  [ep |-> "none", action |-> "", hook |-> "", payload_ok |-> TRUE,
   product_id |-> 0, quantity |-> 0, n |-> 0, delay_ms |-> 0,
   name |-> "", price |-> 0, total |-> 0]

HealthRequests == {[BlankRequest EXCEPT !.ep = "health"]}

ExecuteRequests ==
     {[BlankRequest EXCEPT !.ep = "execute", !.action = a] :
        a \in ActionInputs \ {"create_order", "calculate_fibonacci", "simulate_delay"}}
  \cup {[BlankRequest EXCEPT !.ep = "execute", !.action = "create_order",
                             !.product_id = p, !.quantity = q] :
        p \in ProductIdInputs, q \in QuantityInputs}
  \cup {[BlankRequest EXCEPT !.ep = "execute", !.action = "calculate_fibonacci", !.n = k] :
        k \in FibInputs}
  \cup {[BlankRequest EXCEPT !.ep = "execute", !.action = "simulate_delay", !.delay_ms = d] :
        d \in DelayInputs}

\* payload_ok = FALSE: the body's "payload" is not a JSON object
ProductRequests ==
     {[BlankRequest EXCEPT !.ep = "product", !.hook = "product.created",
                             !.name = nm, !.price = pr] :
        nm \in NameInputs, pr \in PriceInputs}
  \cup {[BlankRequest EXCEPT !.ep = "product", !.hook = "product.updated", !.payload_ok = ok] :
        ok \in BOOLEAN}
  \cup {[BlankRequest EXCEPT !.ep = "product", !.hook = "order.paid"]}

OrderRequests ==
     {[BlankRequest EXCEPT !.ep = "order", !.hook = "order.created", !.total = tt] :
        tt \in TotalInputs}
  \cup {[BlankRequest EXCEPT !.ep = "order", !.hook = h] :
        h \in {"order.updated", "order.paid", Absent}}
  \cup {[BlankRequest EXCEPT !.ep = "order", !.hook = "order.paid", !.payload_ok = FALSE]}

AnalyticsRequests ==
  {[BlankRequest EXCEPT !.ep = "analytics", !.hook = h] :
     h \in AnalyticsHooks \cup {"product.created"}}

Requests ==
  HealthRequests \cup ExecuteRequests \cup ProductRequests
                 \cup OrderRequests \cup AnalyticsRequests

\* the requests the second testable property of section 8 ranges over
IsCreateOrReadOnly(r) == r.ep = "execute" /\ r.action \in SupportedActions

----------------------------------------------------------------------------
(* Responses *)

BlankLocals == [tmp |-> 0, id |-> 0, unit_price |-> 0, product_name |-> "", n |-> 0]

NoResponse ==
  [req |-> BlankRequest, status |-> 0, success |-> FALSE, error |-> "",
   available_actions |-> <<>>, supported_hooks |-> <<>>,
   data |-> <<>>, count |-> 0, total_orders |-> 0, average_order_value |-> 0,
   total_price |-> 0, result |-> 0, requested_delay_ms |-> 0]

\* jsonify(body) with the default status
Ok(r) == [NoResponse EXCEPT !.req = r, !.status = 200, !.success = TRUE]

\* the `except Exception` clause of a handler
InternalError(r, msg) ==
  [NoResponse EXCEPT !.req = r, !.status = 500, !.success = FALSE, !.error = msg]

\* UnsupportedHook without the `, 400` of its return
UnsupportedHookDefaultStatus(r, hooks) ==
  [NoResponse EXCEPT !.req = r, !.status = 200, !.success = FALSE,
                     !.error = "Unsupported hook", !.supported_hooks = hooks]

\* the `else` branch of a hook handler
UnsupportedHook(r, hooks) ==
  [NoResponse EXCEPT !.req = r, !.status = 400, !.success = FALSE,
                     !.error = "Unsupported hook", !.supported_hooks = hooks]

AvailableActions ==
  <<"list_products", "create_order", "get_analytics",
    "calculate_fibonacci", "simulate_delay", "random_data">>

\* the `else` branch of execute: a result with success False, sent by the
\* common `return jsonify(response)`
UnknownAction(r) ==
  [NoResponse EXCEPT !.req = r, !.status = 200, !.success = FALSE,
                     !.error = "Unknown action",
                     !.available_actions = AvailableActions]

\* create_order when the lookup finds nothing, sent by the same return
ProductNotFound(r) ==
  [NoResponse EXCEPT !.req = r, !.status = 200, !.success = FALSE,
                     !.error = "Product not found"]

----------------------------------------------------------------------------
(* Pure helpers of the handlers *)

Max(a, b) == IF a >= b THEN a ELSE b
Min(a, b) == IF a <= b THEN a ELSE b

\* FindProduct falling back on the first product when nothing matches
FindProductOrFirst(ps, product_id) ==
  IF \E i \in 1..Len(ps) : ps[i].id = product_id
  THEN CHOOSE i \in 1..Len(ps) : ps[i].id = product_id
  ELSE 1

\* next((p for p in products if p["id"] == product_id), None): the index of
\* the first match, 0 for None
FindProduct(ps, product_id) ==
  IF \E i \in 1..Len(ps) : ps[i].id = product_id
  THEN CHOOSE i \in 1..Len(ps) :
         /\ ps[i].id = product_id
         /\ \A j \in 1..(i - 1) : ps[j].id # product_id
  ELSE 0

\* round(total_revenue / max(total_orders, 1), 2) on cents: the quotient
\* rounded to the nearest cent, a tie going to the even cent
AverageOrderValue(total_revenue, total_orders) ==
  LET d == Max(total_orders, 1)
      q == total_revenue \div d
      r == total_revenue % d
  IN  IF 2 * r < d THEN q
      ELSE IF 2 * r > d THEN q + 1
      ELSE IF q % 2 = 0 THEN q ELSE q + 1

RECURSIVE fibonacci(_)
fibonacci(num) == IF num <= 1 THEN num ELSE fibonacci(num - 1) + fibonacci(num - 2)

FibLimit == 35
DelayLimit == 2000

\* the product appended by the product.created hook
NewProduct(id, r) ==
  [id |-> id, name |-> Get(r.name, "Unknown Product"), price |-> r.price,
   category |-> "general", stock |-> 0]

\* the order appended by the order.created hook: a total and no product
HookOrder(id, r) ==
  [id |-> id, total_price |-> r.total, status |-> "processing"]

\* the order appended by create_order
ExecuteOrder(id, r, l) ==
  [id |-> id, product_id |-> r.product_id, product_name |-> l.product_name,
   quantity |-> r.quantity, unit_price |-> l.unit_price,
   total_price |-> l.unit_price * r.quantity, status |-> "confirmed"]

----------------------------------------------------------------------------
(* Steps shared by the handlers *)

history == <<nStarted, nDone, okOrders, okRevenue, onlyExecute, createdLog>>

\* a step that sends nothing: lastResp holds a response only in the state its
\* sending step leads to
NoSend == lastResp' = NoResponse /\ UNCHANGED history

Goto(t, p) == pc' = [pc EXCEPT ![t] = p]

\* the handler returns: the response is sent and the thread ends
Send(t, resp) ==
  /\ lastResp' = resp
  /\ nDone' = nDone + 1
  /\ pc' = [pc EXCEPT ![t] = "idle"]
  /\ req' = [req EXCEPT ![t] = BlankRequest]
  /\ loc' = [loc EXCEPT ![t] = BlankLocals]
  /\ okOrders' = IF resp.req.action = "create_order" /\ resp.success
                 THEN okOrders + 1 ELSE okOrders
  /\ okRevenue' = IF resp.req.action = "create_order" /\ resp.success
                  THEN okRevenue + resp.total_price ELSE okRevenue
  /\ createdLog' = IF resp.req.ep = "product" /\ resp.req.hook = "product.created"
                      /\ resp.success
                   THEN Append(createdLog, resp.req.name) ELSE createdLog
  /\ UNCHANGED <<nStarted, onlyExecute>>

\* the counter a handler's first statement increments
FirstCounter(r) == IF r.ep = "analytics" THEN "calculations" ELSE "requests"

\* where the handler stands once that counter is loaded
FirstPc(r) ==
  CASE r.ep = "health" -> "health_36w"
    [] r.ep = "product" -> "product_88w"
    [] r.ep = "order" -> "order_139w"
    [] r.ep = "analytics" -> "analytics_189w"
    [] r.ep = "execute" -> "execute_272w"

\* Accept on a server that handles one request at a time (threaded=False)
AcceptOneAtATime(t, limit) ==
  /\ \A u \in Threads : pc[u] = "idle"
  /\ nStarted < limit
  /\ \E r \in Requests :
       /\ req' = [req EXCEPT ![t] = r]
       /\ pc' = [pc EXCEPT ![t] = FirstPc(r)]
       /\ loc' = [loc EXCEPT ![t].tmp = counters[FirstCounter(r)]]
       /\ onlyExecute' = (onlyExecute /\ IsCreateOrReadOnly(r))
  /\ nStarted' = nStarted + 1
  /\ lastResp' = NoResponse
  /\ UNCHANGED <<store, nDone, okOrders, okRevenue, createdLog>>

\* the server starts a thread for a request, as long as fewer than `limit`
\* have arrived, and the handler loads the counter its first statement
\* increments
Accept(t, limit) ==
  /\ pc[t] = "idle"
  /\ nStarted < limit
  /\ \E r \in Requests :
       /\ req' = [req EXCEPT ![t] = r]
       /\ pc' = [pc EXCEPT ![t] = FirstPc(r)]
       /\ loc' = [loc EXCEPT ![t].tmp = counters[FirstCounter(r)]]
       /\ onlyExecute' = (onlyExecute /\ IsCreateOrReadOnly(r))
  /\ nStarted' = nStarted + 1
  /\ lastResp' = NoResponse
  /\ UNCHANGED <<store, nDone, okOrders, okRevenue, createdLog>>

Start(t) == Accept(t, MaxRequests)

\* the load of data_store["counters"][key] += 1
CounterRead(t, at, key, next) ==
  /\ pc[t] = at
  /\ loc' = [loc EXCEPT ![t].tmp = counters[key]]
  /\ Goto(t, next)
  /\ NoSend
  /\ UNCHANGED <<store, req>>

\* the store of data_store["counters"][key] += 1
CounterWrite(t, at, key, next) ==
  /\ pc[t] = at
  /\ counters' = [counters EXCEPT ![key] = loc[t].tmp + 1]
  /\ Goto(t, next)
  /\ NoSend
  /\ UNCHANGED <<products, orders, analytics, req, loc>>

----------------------------------------------------------------------------
(* GET /health *)

HealthWrite(t) ==
  /\ pc[t] = "health_36w"
  /\ counters' = [counters EXCEPT !.requests = loc[t].tmp + 1]
  /\ Send(t, Ok(req[t]))
  /\ UNCHANGED <<products, orders, analytics>>

----------------------------------------------------------------------------
(* POST /actions/product *)

ProductRequestsWrite(t) == CounterWrite(t, "product_88w", "requests", "product_97")

ProductHook(t) == Get(req[t].hook, "unknown")

ProductUnsupported(t) ==
  /\ pc[t] = "product_97"
  /\ ProductHook(t) \notin ProductHooks
  /\ Send(t, UnsupportedHook(req[t], <<"product.created", "product.updated">>))
  /\ UNCHANGED store

\* payload.get(...) on a payload that is not an object raises
ProductBadPayload(t) ==
  /\ pc[t] = "product_97"
  /\ ProductHook(t) \in ProductHooks
  /\ ~req[t].payload_ok
  /\ Send(t, InternalError(req[t], "AttributeError"))
  /\ UNCHANGED store

ProductUpdated(t) ==
  /\ pc[t] = "product_97"
  /\ ProductHook(t) = "product.updated"
  /\ req[t].payload_ok
  /\ Send(t, Ok(req[t]))
  /\ UNCHANGED store

\* "id": len(data_store["products"]) + 1
ProductNewId(t) ==
  /\ pc[t] = "product_97"
  /\ ProductHook(t) = "product.created"
  /\ req[t].payload_ok
  /\ loc' = [loc EXCEPT ![t].id = Len(products) + 1]
  /\ Goto(t, "product_111")
  /\ NoSend
  /\ UNCHANGED <<store, req>>

ProductAppend(t) ==
  /\ pc[t] = "product_111"
  /\ products' = Append(products, NewProduct(loc[t].id, req[t]))
  /\ Goto(t, "product_114")
  /\ NoSend
  /\ UNCHANGED <<counters, orders, analytics, req, loc>>

ProductCreated(t) ==
  /\ pc[t] = "product_114"
  /\ Send(t, Ok(req[t]))
  /\ UNCHANGED store

----------------------------------------------------------------------------
(* POST /actions/order *)

OrderRequestsWrite(t) == CounterWrite(t, "order_139w", "requests", "order_148")

OrderHook(t) == Get(req[t].hook, "unknown")

OrderUnsupported(t) ==
  /\ pc[t] = "order_148"
  /\ OrderHook(t) \notin OrderHooks
  /\ Send(t, UnsupportedHook(req[t], <<"order.created", "order.updated", "order.paid">>))
  /\ UNCHANGED store

OrderBadPayload(t) ==
  /\ pc[t] = "order_148"
  /\ OrderHook(t) \in OrderHooks
  /\ ~req[t].payload_ok
  /\ Send(t, InternalError(req[t], "AttributeError"))
  /\ UNCHANGED store

\* OrderAcknowledged applying the hook: every order is marked with its name
OrderAcknowledgedApplied(t) ==
  /\ pc[t] = "order_148"
  /\ Get(req[t].hook, "unknown") \in {"order.updated", "order.paid"}
  /\ req[t].payload_ok
  /\ orders' = [i \in 1..Len(orders) |-> [orders[i] EXCEPT !.status = req[t].hook]]
  /\ Send(t, Ok(req[t]))
  /\ UNCHANGED <<counters, products, analytics>>

\* order.updated and order.paid: acknowledged, nothing applied
OrderAcknowledged(t) ==
  /\ pc[t] = "order_148"
  /\ OrderHook(t) \in OrderHooks \ {"order.created"}
  /\ req[t].payload_ok
  /\ Send(t, Ok(req[t]))
  /\ UNCHANGED store

\* "id": len(data_store["orders"]) + 1
OrderNewId(t) ==
  /\ pc[t] = "order_148"
  /\ OrderHook(t) = "order.created"
  /\ req[t].payload_ok
  /\ loc' = [loc EXCEPT ![t].id = Len(orders) + 1]
  /\ Goto(t, "order_159")
  /\ NoSend
  /\ UNCHANGED <<store, req>>

OrderAppend(t) ==
  /\ pc[t] = "order_159"
  /\ orders' = Append(orders, HookOrder(loc[t].id, req[t]))
  /\ Goto(t, "order_160r")
  /\ NoSend
  /\ UNCHANGED <<counters, products, analytics, req, loc>>

\* the load of total_revenue += total
OrderRevenueRead(t) ==
  /\ pc[t] = "order_160r"
  /\ IsNumber(req[t].total)
  /\ loc' = [loc EXCEPT ![t].tmp = analytics.total_revenue]
  /\ Goto(t, "order_160w")
  /\ NoSend
  /\ UNCHANGED <<store, req>>

\* number += object raises TypeError: the order stays appended
OrderRevenueTypeError(t) ==
  /\ pc[t] = "order_160r"
  /\ ~IsNumber(req[t].total)
  /\ Send(t, InternalError(req[t], "TypeError"))
  /\ UNCHANGED store

OrderRevenueWrite(t) ==
  /\ pc[t] = "order_160w"
  /\ analytics' = [analytics EXCEPT !.total_revenue = loc[t].tmp + req[t].total]
  /\ Goto(t, "order_161r")
  /\ NoSend
  /\ UNCHANGED <<counters, products, orders, req, loc>>

OrderCountRead(t) ==
  /\ pc[t] = "order_161r"
  /\ loc' = [loc EXCEPT ![t].tmp = analytics.orders_count]
  /\ Goto(t, "order_161w")
  /\ NoSend
  /\ UNCHANGED <<store, req>>

OrderCountWrite(t) ==
  /\ pc[t] = "order_161w"
  /\ analytics' = [analytics EXCEPT !.orders_count = loc[t].tmp + 1]
  /\ Send(t, Ok(req[t]))
  /\ UNCHANGED <<counters, products, orders>>

----------------------------------------------------------------------------
(* POST /actions/analytics *)

AnalyticsCalculationsWrite(t) ==
  CounterWrite(t, "analytics_189w", "calculations", "analytics_198")

AnalyticsHook(t) == Get(req[t].hook, "unknown")

AnalyticsUnsupported(t) ==
  /\ pc[t] = "analytics_198"
  /\ AnalyticsHook(t) \notin AnalyticsHooks
  /\ Send(t, UnsupportedHook(req[t], <<"analytics.calculate", "report.generate">>))
  /\ UNCHANGED store

\* total_orders = len(data_store["orders"])
AnalyticsTotalOrders(t) ==
  /\ pc[t] = "analytics_198"
  /\ AnalyticsHook(t) \in AnalyticsHooks
  /\ loc' = [loc EXCEPT ![t].tmp = Len(orders)]
  /\ Goto(t, "analytics_202")
  /\ NoSend
  /\ UNCHANGED <<store, req>>

\* avg_order_value = total_revenue / max(total_orders, 1), then the response
AnalyticsCalculated(t) ==
  /\ pc[t] = "analytics_202"
  /\ Send(t, [Ok(req[t]) EXCEPT
                !.total_orders = loc[t].tmp,
                !.average_order_value =
                   AverageOrderValue(analytics.total_revenue, loc[t].tmp)])
  /\ UNCHANGED store

----------------------------------------------------------------------------
(* POST /execute *)

ExecuteRequestsWrite(t) == CounterWrite(t, "execute_272w", "requests", "execute_280")

\* ExecuteAction with a supported action as the default
ExecuteActionDefaultList(t) == Get(req[t].action, "list_products")

ExecuteAction(t) == Get(req[t].action, "default")

\* list_products: the load of counters["queries"] += 1
ListQueriesRead(t) ==
  /\ ExecuteAction(t) = "list_products"
  /\ CounterRead(t, "execute_280", "queries", "execute_281w")

ListQueriesWrite(t) == CounterWrite(t, "execute_281w", "queries", "execute_285")

\* "count": len(data_store["products"]); "data" is the list itself
ListCount(t) ==
  /\ pc[t] = "execute_285"
  /\ loc' = [loc EXCEPT ![t].tmp = Len(products)]
  /\ Goto(t, "execute_421")
  /\ NoSend
  /\ UNCHANGED <<store, req>>

\* jsonify(response) serialises the list as it is by then
ListReturn(t) ==
  /\ pc[t] = "execute_421"
  /\ Send(t, [Ok(req[t]) EXCEPT !.data = products, !.count = loc[t].tmp])
  /\ UNCHANGED store

\* create_order: the lookup finds nothing
CreateOrderNotFound(t) ==
  /\ pc[t] = "execute_280"
  /\ ExecuteAction(t) = "create_order"
  /\ FindProduct(products, req[t].product_id) = 0
  /\ Send(t, ProductNotFound(req[t]))
  /\ UNCHANGED store

\* product["price"] * quantity with a quantity that is an object raises
CreateOrderTypeError(t) ==
  /\ pc[t] = "execute_280"
  /\ ExecuteAction(t) = "create_order"
  /\ FindProduct(products, req[t].product_id) # 0
  /\ ~IsNumber(req[t].quantity)
  /\ Send(t, InternalError(req[t], "TypeError"))
  /\ UNCHANGED store

CreateOrderFound(t) ==
  /\ pc[t] = "execute_280"
  /\ ExecuteAction(t) = "create_order"
  /\ FindProduct(products, req[t].product_id) # 0
  /\ IsNumber(req[t].quantity)
  /\ LET p == products[FindProduct(products, req[t].product_id)]
     IN  loc' = [loc EXCEPT ![t].unit_price = p.price, ![t].product_name = p.name]
  /\ Goto(t, "execute_305")
  /\ NoSend
  /\ UNCHANGED <<store, req>>

\* "id": len(data_store["orders"]) + 1
CreateOrderNewId(t) ==
  /\ pc[t] = "execute_305"
  /\ loc' = [loc EXCEPT ![t].id = Len(orders) + 1]
  /\ Goto(t, "execute_314")
  /\ NoSend
  /\ UNCHANGED <<store, req>>

CreateOrderAppend(t) ==
  /\ pc[t] = "execute_314"
  /\ orders' = Append(orders, ExecuteOrder(loc[t].id, req[t], loc[t]))
  /\ Goto(t, "execute_315r")
  /\ NoSend
  /\ UNCHANGED <<counters, products, analytics, req, loc>>

CreateOrderRevenueRead(t) ==
  /\ pc[t] = "execute_315r"
  /\ loc' = [loc EXCEPT ![t].tmp = analytics.total_revenue]
  /\ Goto(t, "execute_315w")
  /\ NoSend
  /\ UNCHANGED <<store, req>>

CreateOrderRevenueWrite(t) ==
  /\ pc[t] = "execute_315w"
  /\ analytics' = [analytics EXCEPT
                     !.total_revenue = loc[t].tmp + loc[t].unit_price * req[t].quantity]
  /\ Goto(t, "execute_316r")
  /\ NoSend
  /\ UNCHANGED <<counters, products, orders, req, loc>>

CreateOrderCountRead(t) ==
  /\ pc[t] = "execute_316r"
  /\ loc' = [loc EXCEPT ![t].tmp = analytics.orders_count]
  /\ Goto(t, "execute_316w")
  /\ NoSend
  /\ UNCHANGED <<store, req>>

CreateOrderCountWrite(t) ==
  /\ pc[t] = "execute_316w"
  /\ analytics' = [analytics EXCEPT !.orders_count = loc[t].tmp + 1]
  /\ Send(t, [Ok(req[t]) EXCEPT !.total_price = loc[t].unit_price * req[t].quantity])
  /\ UNCHANGED <<counters, products, orders>>

\* get_analytics: total_orders = len(data_store["orders"])
GetAnalyticsTotalOrders(t) ==
  /\ pc[t] = "execute_280"
  /\ ExecuteAction(t) = "get_analytics"
  /\ loc' = [loc EXCEPT ![t].tmp = Len(orders)]
  /\ Goto(t, "execute_329")
  /\ NoSend
  /\ UNCHANGED <<store, req>>

GetAnalyticsReturn(t) ==
  /\ pc[t] = "execute_329"
  /\ Send(t, [Ok(req[t]) EXCEPT
                !.total_orders = loc[t].tmp,
                !.average_order_value =
                   AverageOrderValue(analytics.total_revenue, loc[t].tmp)])
  /\ UNCHANGED store

\* calculate_fibonacci: the load of counters["calculations"] += 1
FibCalculationsRead(t) ==
  /\ ExecuteAction(t) = "calculate_fibonacci"
  /\ CounterRead(t, "execute_280", "calculations", "execute_345w")

\* the store, then min(n, 35) (raising on an n that is no number) and the result
FibCalculationsWrite(t) ==
  /\ pc[t] = "execute_345w"
  /\ counters' = [counters EXCEPT !.calculations = loc[t].tmp + 1]
  /\ IF IsNumber(req[t].n)
     THEN Send(t, [Ok(req[t]) EXCEPT !.result = fibonacci(Min(req[t].n, FibLimit))])
     ELSE Send(t, InternalError(req[t], "TypeError"))
  /\ UNCHANGED <<products, orders, analytics>>

\* simulate_delay: time.sleep(min(delay_ms, 2000) / 1000.0) begins
DelaySleep(t) ==
  /\ pc[t] = "execute_280"
  /\ ExecuteAction(t) = "simulate_delay"
  /\ Goto(t, "execute_369")
  /\ NoSend
  /\ UNCHANGED <<store, req, loc>>

\* the sleep ends
DelayWake(t) ==
  /\ pc[t] = "execute_369"
  /\ Send(t, [Ok(req[t]) EXCEPT
                !.requested_delay_ms = Min(req[t].delay_ms, DelayLimit)])
  /\ UNCHANGED store

RandomData(t) ==
  /\ pc[t] = "execute_280"
  /\ ExecuteAction(t) = "random_data"
  /\ Send(t, Ok(req[t]))
  /\ UNCHANGED store

ExecuteUnknown(t) ==
  /\ pc[t] = "execute_280"
  /\ ExecuteAction(t) \notin SupportedActions
  /\ Send(t, UnknownAction(req[t]))
  /\ UNCHANGED store

----------------------------------------------------------------------------
(* The server *)

Init ==
  /\ counters = InitCounters
  /\ products = SeedProducts
  /\ orders = <<>>
  /\ analytics = InitAnalytics
  /\ pc = [t \in Threads |-> "idle"]
  /\ req = [t \in Threads |-> BlankRequest]
  /\ loc = [t \in Threads |-> BlankLocals]
  /\ lastResp = NoResponse
  /\ nStarted = 0
  /\ nDone = 0
  /\ okOrders = 0
  /\ okRevenue = 0
  /\ onlyExecute = TRUE
  /\ createdLog = <<>>

Health(t) == HealthWrite(t)

HandleProduct(t) ==
  \/ ProductRequestsWrite(t)
  \/ ProductUnsupported(t) \/ ProductBadPayload(t) \/ ProductUpdated(t)
  \/ ProductNewId(t) \/ ProductAppend(t) \/ ProductCreated(t)

HandleOrder(t) ==
  \/ OrderRequestsWrite(t)
  \/ OrderUnsupported(t) \/ OrderBadPayload(t) \/ OrderAcknowledged(t)
  \/ OrderNewId(t) \/ OrderAppend(t)
  \/ OrderRevenueRead(t) \/ OrderRevenueTypeError(t) \/ OrderRevenueWrite(t)
  \/ OrderCountRead(t) \/ OrderCountWrite(t)

HandleAnalytics(t) ==
  \/ AnalyticsCalculationsWrite(t)
  \/ AnalyticsUnsupported(t) \/ AnalyticsTotalOrders(t) \/ AnalyticsCalculated(t)

Execute(t) ==
  \/ ExecuteRequestsWrite(t)
  \/ ListQueriesRead(t) \/ ListQueriesWrite(t) \/ ListCount(t) \/ ListReturn(t)
  \/ CreateOrderNotFound(t) \/ CreateOrderTypeError(t) \/ CreateOrderFound(t)
  \/ CreateOrderNewId(t) \/ CreateOrderAppend(t)
  \/ CreateOrderRevenueRead(t) \/ CreateOrderRevenueWrite(t)
  \/ CreateOrderCountRead(t) \/ CreateOrderCountWrite(t)
  \/ GetAnalyticsTotalOrders(t) \/ GetAnalyticsReturn(t)
  \/ FibCalculationsRead(t) \/ FibCalculationsWrite(t)
  \/ DelaySleep(t) \/ DelayWake(t)
  \/ RandomData(t) \/ ExecuteUnknown(t)

\* every step of the request thread t is handling
Handle(t) == Health(t) \/ HandleProduct(t) \/ HandleOrder(t) \/ HandleAnalytics(t) \/ Execute(t)

Next == \E t \in Threads : Start(t) \/ Handle(t)

Spec == Init /\ [][Next]_vars

FairNext == \E t \in Threads : Accept(t, MaxFairRequests) \/ Handle(t)

\* every thread the server has started keeps being scheduled, and the timer
\* of time.sleep expires: a handler that can take a step eventually takes one
FairSpec == Init /\ [][FairNext]_vars /\ \A t \in Threads : WF_vars(Handle(t))

----------------------------------------------------------------------------
(* Properties *)

RECURSIVE SumTotals(_)
\* sum(order.total_price for all orders), over the totals that are numbers
SumTotals(os) ==
  IF os = <<>> THEN 0
  ELSE (IF IsNumber(Head(os).total_price) THEN Head(os).total_price ELSE 0)
       + SumTotals(Tail(os))

\* no request is being handled
Quiescent == \A t \in Threads : pc[t] = "idle"

\* C1: analytics.total_revenue is the sum of total_price over orders and
\* analytics.orders_count is the length of orders.  The claim is for every
\* reachable state; it is stated here for the states where no request is
\* being handled, where a difference can no longer be a step in progress.
C1_AggregateMatchesOrders ==
  Quiescent =>
    /\ analytics.orders_count = Len(orders)
    /\ analytics.total_revenue = SumTotals(orders)

\* C2: after requests that were all create_order or read-only actions have
\* all completed, orders_count is the number of create_order responses with
\* success:true and total_revenue is the sum of the total_price they returned.
C2_CountsAfterCreateOrders ==
  (Quiescent /\ onlyExecute) =>
    /\ analytics.orders_count = okOrders
    /\ analytics.total_revenue = okRevenue

\* thread t handles a create_order whose product_id is the id of no product
MissingProduct(t) ==
  /\ req[t].ep = "execute"
  /\ req[t].action = "create_order"
  /\ \A i \in 1..Len(products) : products[i].id # req[t].product_id

\* the step answers thread t's request
Answers(t) == nDone' = nDone + 1 /\ lastResp'.req = req[t]

\* C3, as claimed: no step of a create_order request whose product_id matches
\* no product changes any part of the Store, the three counters included, and
\* its answer is success:false with error "Product not found".
C3_MissingProductLeavesStore ==
  [][\A t \in Threads :
       (Handle(t) /\ MissingProduct(t)) =>
          /\ UNCHANGED <<products, orders, analytics, counters>>
          /\ Answers(t) => (~lastResp'.success /\ lastResp'.error = "Product not found")]_vars

\* C3, amended: such a request changes neither products, orders, the analytics
\* aggregate nor the calculations and queries counters; it writes the requests
\* counter (one more than the value it loaded), and its answer is
\* success:false with error "Product not found".
C3_MissingProductWritesRequestsOnly ==
  [][\A t \in Threads :
       (Handle(t) /\ MissingProduct(t)) =>
          /\ UNCHANGED <<products, orders, analytics>>
          /\ counters'.calculations = counters.calculations
          /\ counters'.queries = counters.queries
          /\ \/ counters' = counters
             \/ counters'.requests = loc[t].tmp + 1
          /\ Answers(t) => (~lastResp'.success /\ lastResp'.error = "Product not found")]_vars

\* a create_order for product 4, which no product carries, has been answered
\* after writing the requests counter
C3_Witness ==
  /\ lastResp.req.action = "create_order"
  /\ lastResp.req.product_id = 4
  /\ \A i \in 1..Len(products) : products[i].id # 4
  /\ lastResp.error = "Product not found"
  /\ counters.requests >= 1

\* the validation failures that C4 names, read off the answered request
IsUnknownAction(r) == r.ep = "execute" /\ r.action \notin SupportedActions
IsMissingProduct(r) ==
  /\ r.ep = "execute" /\ r.action = "create_order"
  /\ \A i \in 1..Len(products) : products[i].id # r.product_id
IsUnsupportedHook(r) ==
  \/ r.ep = "product" /\ r.hook \notin {"product.created", "product.updated"}
  \/ r.ep = "order" /\ r.hook \notin {"order.created", "order.updated", "order.paid"}
  \/ r.ep = "analytics" /\ r.hook \notin {"analytics.calculate", "report.generate"}
\* the request carries a value of the wrong JSON type, on which the handler raises
IsMalformed(r) ==
  \/ ~r.payload_ok
  \/ r.quantity = NonNumeric \/ r.total = NonNumeric \/ r.n = NonNumeric

Answered == lastResp.status # 0

C5_UnknownActionRejected ==
  [][\A t \in Threads :
       (Handle(t) /\ req[t].ep = "execute"
          /\ req[t].action \notin {"list_products", "create_order", "get_analytics",
                                   "calculate_fibonacci", "simulate_delay", "random_data"}) =>
          /\ UNCHANGED <<products, orders, analytics>>
          /\ Answers(t) =>
               /\ ~lastResp'.success
               /\ lastResp'.status # 500
               /\ lastResp'.available_actions =
                    <<"list_products", "create_order", "get_analytics",
                      "calculate_fibonacci", "simulate_delay", "random_data">>]_vars

\* a request with no action field has been answered with the list of names,
\* in a store that already holds an order
C5_Witness ==
  /\ lastResp.req.ep = "execute"
  /\ lastResp.req.action = Absent
  /\ lastResp.available_actions # <<>>
  /\ Len(orders) > 0

\* thread t handles one of the accepted hooks other than product.created and
\* order.created, at the endpoint that accepts it
AcknowledgedHook(t) ==
  \/ req[t].ep = "product" /\ req[t].hook = "product.updated"
  \/ req[t].ep = "order" /\ req[t].hook \in {"order.updated", "order.paid"}
  \/ req[t].ep = "analytics" /\ req[t].hook \in {"analytics.calculate", "report.generate"}

\* C9, as claimed: product.updated, order.updated, order.paid,
\* analytics.calculate and report.generate each leave products, orders and the
\* analytics aggregate unchanged and are answered with success:true.
C9_AcknowledgedHooksSucceed ==
  [][\A t \in Threads :
       (Handle(t) /\ AcknowledgedHook(t)) =>
          /\ UNCHANGED <<products, orders, analytics>>
          /\ Answers(t) => lastResp'.success]_vars

\* C9, amended: each of these hooks leaves products, orders and the analytics
\* aggregate unchanged; it is answered with success:true when its payload is
\* a JSON object (the analytics hooks always), and with status 500 and
\* success:false when product.updated, order.updated or order.paid carries a
\* payload that is not an object.
C9_AcknowledgedHooksChangeNothing ==
  [][\A t \in Threads :
       (Handle(t) /\ AcknowledgedHook(t)) =>
          /\ UNCHANGED <<products, orders, analytics>>
          /\ Answers(t) =>
               IF req[t].payload_ok \/ req[t].ep = "analytics"
               THEN lastResp'.success /\ lastResp'.status = 200
               ELSE ~lastResp'.success /\ lastResp'.status = 500]_vars

\* order.paid has been answered with success:true while the store holds an
\* order, whose status is still the one set on creation
C9_Witness ==
  /\ lastResp.req.ep = "order"
  /\ lastResp.req.hook = "order.paid"
  /\ lastResp.success
  /\ Len(orders) > 0
  /\ orders[1].status \in {"processing", "confirmed"}

\* the name of each product of ps after the first k
RECURSIVE NamesFrom(_, _)
NamesFrom(ps, k) ==
  IF k >= Len(ps) THEN <<>> ELSE <<ps[k + 1].name>> \o NamesFrom(ps, k + 1)

\* some product.created call is still being handled
CreationInFlight ==
  \E t \in Threads : req[t].ep = "product" /\ req[t].hook = "product.created"

\* C6: the sequence list_products returns is the three seeded products
\* followed by one product for each product.created call answered with
\* success:true, in the order of those answers, and count is its length.
\* Stated for the answers sent while no product.created call is in progress,
\* so that every product in the store belongs to an answered call.
C6_ListReflectsCreated ==
  (Answered /\ lastResp.req.action = "list_products" /\ ~CreationInFlight) =>
    /\ Len(lastResp.data) >= 3
    /\ SubSeq(lastResp.data, 1, 3) = SeedProducts
    /\ NamesFrom(lastResp.data, 3) = createdLog
    /\ lastResp.count = Len(lastResp.data)

\* C7: the k-th product has id k and the k-th order has id k, so that ids
\* are unique within each sequence.
C7_IdsArePositions ==
  /\ \A k \in 1..Len(products) : products[k].id = k
  /\ \A k \in 1..Len(orders) : orders[k].id = k

\* C8: requests, calculations and queries are non-negative and no step
\* decreases any of them.
C8_CountersMonotonic ==
  [][/\ counters'.requests >= counters.requests /\ counters.requests >= 0
     /\ counters'.calculations >= counters.calculations /\ counters.calculations >= 0
     /\ counters'.queries >= counters.queries /\ counters.queries >= 0]_vars

\* C10: the average_order_value that get_analytics, analytics.calculate and
\* report.generate report is analytics.total_revenue divided by
\* max(analytics.orders_count, 1), rounded to 2 places, in the state the
\* answer is sent in.
C10_AverageUsesOrdersCount ==
  (Answered /\ lastResp.success
     /\ \/ lastResp.req.action = "get_analytics"
        \/ lastResp.req.ep = "analytics") =>
    lastResp.average_order_value =
      AverageOrderValue(analytics.total_revenue, analytics.orders_count)

\* thread t is inside time.sleep
Sleeping(t) == pc[t] = "execute_369"

\* while thread t sleeps, every other thread can go on: one that is free can
\* be given a request (as long as requests arrive), one that is handling a
\* request can take its next step
OthersCanRun(t) ==
  \A u \in Threads \ {t} :
    IF pc[u] = "idle"
    THEN nStarted < MaxFairRequests => ENABLED Accept(u, MaxFairRequests)
    ELSE ENABLED Handle(u)

\* C11: a simulate_delay request suspends only its own handling.  While a
\* request is inside its delay wait every other request can be started and
\* can take each of its steps up to its answer; no step of another request
\* ends or alters the wait; and the wait ends, the delayed request being
\* answered with success:true.
C11_DelaySuspendsOnlyItself ==
  /\ [](\A t \in Threads : Sleeping(t) => OthersCanRun(t))
  /\ [][\A t \in Threads :
          Sleeping(t) =>
            \/ Sleeping(t)' /\ req'[t] = req[t]
            \/ Answers(t) /\ lastResp'.success /\ lastResp'.status = 200]_vars
  /\ \A t \in Threads : Sleeping(t) ~> ~Sleeping(t)

\* a request sleeps while another request has been started and answered, a
\* create_order that went through all of its steps
C11_Witness ==
  \E t \in Threads :
    /\ Sleeping(t)
    /\ nStarted = 2
    /\ nDone = 1
    /\ lastResp.req.action = "create_order"
    /\ lastResp.success

====
